---- MODULE Spec2Model ----
(***************************************************************************)
(* A model of the StrengthLog client: the Firebase auth session            *)
(* (strengthlog/auth.py), the authenticated document-store requests and    *)
(* the read operations built on them (strengthlog/client.py).              *)
(*                                                                         *)
(* The client is single-threaded asyncio code: it suspends only at network *)
(* calls.  A step of the model is the code that runs between two           *)
(* suspensions.  The position "call" is the entry of one request function  *)
(* (_request, _fetch_document, one page of _fetch_collection); no time     *)
(* passes there.  The clock advances only while a response is awaited or   *)
(* the client is idle.                                                     *)
(***************************************************************************)
EXTENDS Integers, Sequences, FiniteSets, TLC

\* ------------------------------------------------------------------ bounds
MaxTicks == 2          \* clock steps of the main specification
MaxIssued == 2         \* credentials the identity service issues
MaxPages == 1          \* last page index a paginated listing may reach
MaxClock == 3700       \* seconds the one-second clock of SpecClock runs
MaxLoginAt == 2        \* latest second at which SpecClock logs in
MaxKeys == 3           \* keys of a workoutsOrder mapping given to SpecParse
MaxSets == 3           \* sets of a workout given to SpecParse

\* --------------------------------------------------------- program constants
Margin == 300              \* timedelta(minutes=5), in seconds
DefaultExpiresIn == 3600   \* expiresIn / expires_in of the identity service
TickStep == DefaultExpiresIn - Margin   \* one clock step of the main specification: the life of a credential

None == << >>
Some(v) == << v >>
Val(o) == o[1]

Statuses == {200, 401, 500}
ExIds == {"e1", "e2"}
Names == {"Bench", "Squat"}
UserId == "U1"

VARIABLES
  id_token, refresh_token, user_id, token_expiry,  \* FirebaseAuth fields
  exercises_cache,                                  \* StrengthLogClient._exercises_cache
  now,                                              \* the clock, in seconds
  issued,                                           \* credentials issued so far by the identity service
  op, site, fpc,                                    \* running operation, request site, position in the request
  local,                                            \* local variables of the running operation
  fetch,                                            \* the request in progress: what it sent and received
  sent,                                             \* the last document-store request sent
  outcome,                                          \* how the last operation ended
  auth_log,                                         \* how the last refresh()/login() ended
  wire,                                             \* a decoded document handed to a parsing function
  assembled                                         \* what the parsing function made of it

vars == << id_token, refresh_token, user_id, token_expiry, exercises_cache, now,
           issued, op, site, fpc, local, fetch, sent, outcome, auth_log, wire, assembled >>

pureVars == << wire, assembled >>

authVars == << id_token, refresh_token, user_id, token_expiry >>

\* ------------------------------------------------------------ FirebaseAuth
\* FirebaseAuth.is_authenticated
is_authenticated == id_token # None /\ user_id # None

IsExpiredStrict(expiry, t) ==
  IF expiry = None THEN TRUE ELSE t > Val(expiry) - Margin

\* FirebaseAuth.is_token_expired, of an expiry and a reading of the clock
IsExpired(expiry, t) ==
  IF expiry = None THEN TRUE ELSE t >= Val(expiry) - Margin

is_token_expired == IsExpired(token_expiry, now)

ExpiryLessMargin(expires_in) == now + expires_in - Margin

\* datetime.now(timezone.utc) + timedelta(seconds=expires_in)
Expiry(expires_in) == now + expires_in

IsAuthError(e) == e \in {"AuthenticationError", "TokenExpiredError"}

RefreshErrorAlwaysExpired(why) == "TokenExpiredError"

\* what refresh() raises: no refresh token held, or the exchange rejected
RefreshError(why) ==
  IF why = "no_token" THEN "AuthenticationError" ELSE "TokenExpiredError"

NoAuthLog == [event |-> "none", error |-> "none", at |-> 0, expires_in |-> 0, token |-> 0]

AuthLog(event, error, expires_in, token) ==
  [event |-> event, error |-> error, at |-> now, expires_in |-> expires_in, token |-> token]

\* FirebaseAuth._update_tokens with the sign-in response {idToken, refreshToken, localId, expiresIn}
UpdateTokens(tok, uid, expires_in) ==
  /\ id_token' = Some(tok)
  /\ refresh_token' = Some(tok)
  /\ user_id' = Some(uid)
  /\ token_expiry' = Some(Expiry(expires_in))

\* the success branch of FirebaseAuth.refresh
RefreshUpdate(tok, expires_in) ==
  /\ id_token' = Some(tok)
  /\ refresh_token' = Some(tok)
  /\ token_expiry' = Some(Expiry(expires_in))
  /\ user_id' = user_id

\* the session states restore_auth_state is given: nothing, a session with
\* no refresh token, a session with no expiry
RestoreStates ==
  { [id_token |-> None, refresh_token |-> None, user_id |-> None, token_expiry |-> None],
    [id_token |-> Some(0), refresh_token |-> None, user_id |-> Some(UserId),
     token_expiry |-> Some(DefaultExpiresIn)],
    [id_token |-> Some(0), refresh_token |-> Some(0), user_id |-> Some(UserId),
     token_expiry |-> None] }

\* ------------------------------------------------------------ data
EmptyMap == [x \in {} |-> ""]

Merge(a, b) ==
  [x \in (DOMAIN a) \cup (DOMAIN b) |-> IF x \in DOMAIN b THEN b[x] ELSE a[x]]

\* dict.get(key, default)
Get(m, k, d) == IF k \in DOMAIN m THEN m[k] ELSE d

NoWire == [kind |-> "none"]
NoAssembled == [kind |-> "none"]

NoSent == [token |-> None, expired |-> FALSE, site |-> "none"]
NoOutcome ==
  [op |-> "none", result |-> "none", status |-> 0, value |-> << >>, raised |-> FALSE,
   left |-> [page |-> 0, workouts |-> << >>, named_at |-> EmptyMap]]

NewFetch(kind) ==
  [kind |-> kind, sends |-> 0, refreshes |-> 0, first |-> 0, last |-> 0,
   auth0 |-> FALSE, expired0 |-> FALSE, result |-> "pending", status |-> 0, body |-> << >>]

InitLocal ==
  [all_exercise_ids |-> {}, missing |-> {}, ex_id |-> "", next_page_token |-> 0,
   docs |-> << >>, has_next |-> FALSE, workouts |-> << >>, all_docs |-> << >>,
   followed_ids |-> {}, todo |-> {}, pid |-> 0, programs |-> << >>,
   workouts_order |-> << >>, wids |-> << >>, pworkouts |-> << >>,
   since |-> None, limit |-> 0, source |-> "", broke_at |-> -1,
   ex_fetches |-> [e \in ExIds |-> 0], named_at |-> EmptyMap, raised |-> FALSE,
   profile |-> None, global_ok |-> {}, global_failed |-> {}, log |-> << >>,
   fetched |-> << >>]

\* ------------------------------------------------------------ state
\* a new StrengthLogClient
InitClient ==
  /\ id_token = None /\ refresh_token = None /\ user_id = None /\ token_expiry = None
  /\ exercises_cache = EmptyMap
  /\ now = 0
  /\ issued = 0
  /\ op = "idle" /\ site = "none" /\ fpc = "idle"
  /\ local = InitLocal
  /\ fetch = NewFetch("none")
  /\ sent = NoSent
  /\ outcome = NoOutcome
  /\ auth_log = NoAuthLog

Init ==
  /\ InitClient
  /\ wire = NoWire
  /\ assembled = NoAssembled

clientVars == << id_token, refresh_token, user_id, token_expiry, exercises_cache, now,
                 issued, op, site, fpc, local, fetch, sent, outcome, auth_log >>

ctlVars == << op, site, fpc, local, fetch, sent, outcome >>

\* FirebaseAuth.login / StrengthLogClient.login, the sign-in accepted
Login(expires_in) ==
  /\ op = "idle"
  /\ issued < MaxIssued
  /\ issued' = issued + 1
  /\ UpdateTokens(issued + 1, UserId, expires_in)
  /\ auth_log' = AuthLog("login_ok", "none", expires_in, issued + 1)
  /\ UNCHANGED << exercises_cache, now, ctlVars >>
  /\ UNCHANGED pureVars

\* FirebaseAuth.login, the sign-in answered with a status other than 200
LoginRejected ==
  /\ op = "idle"
  /\ auth_log' = AuthLog("login_rejected", "AuthenticationError", 0, 0)
  /\ UNCHANGED << authVars, exercises_cache, now, issued, ctlVars >>
  /\ UNCHANGED pureVars

RestoreAuthStateNewClient(state) ==
  /\ op = "idle"
  /\ id_token' = state.id_token
  /\ refresh_token' = state.refresh_token
  /\ user_id' = state.user_id
  /\ token_expiry' = state.token_expiry
  /\ auth_log' = AuthLog("restore", "none", 0, 0)
  /\ exercises_cache' = EmptyMap
  /\ UNCHANGED << now, issued, ctlVars >>
  /\ UNCHANGED pureVars

\* StrengthLogClient.restore_auth_state / FirebaseAuth.from_dict
RestoreAuthState(state) ==
  /\ op = "idle"
  /\ id_token' = state.id_token
  /\ refresh_token' = state.refresh_token
  /\ user_id' = state.user_id
  /\ token_expiry' = state.token_expiry
  /\ auth_log' = AuthLog("restore", "none", 0, 0)
  /\ UNCHANGED << exercises_cache, now, issued, ctlVars >>
  /\ UNCHANGED pureVars

\* the clock: time passes while the client is idle or awaits a response
Tick(d) ==
  /\ fpc \notin {"call", "return", "done"}
  /\ now' = now + d
  /\ UNCHANGED << authVars, exercises_cache, issued, ctlVars, auth_log >>
  /\ UNCHANGED pureVars

\* ------------------------------------------------------------ responses
ExpiresInValues == {DefaultExpiresIn}

\* the exercise library of the user: exercise id -> display name
Libraries ==
  { EmptyMap, [e \in {"e1"} |-> "Bench"], [e \in ExIds |-> "Squat"] }

\* a workout document of the log: its start time and the exercise id of its set
Doc(t, e) == [start |-> t, ex |-> e]

\* one page of the workout log
LogPages ==
  { << >>, << Doc(1, "e1"), Doc(3, "e1") >>, << Doc(2, "e2") >> }

\* the (since, limit) arguments of get_workouts
WorkoutArgs == { [since |-> None, limit |-> 500], [since |-> Some(2), limit |-> 1] }

\* the name of a program document, as its rank in alphabetical order
ProgName(pid) == (pid * 2) % 3

\* the user's own program documents on page k of the listing
PageDocs(k) == << 2 * k + 1, 2 * k + 2 >>

\* followingPrograms of the profile: program id -> the per-follow value, which
\* is a mapping whose "following" is false, or true, or absent, or is no mapping
Followings ==
  { [p \in {} |-> ""],
    [p \in {0, 1} |-> IF p = 0 THEN "no_flag" ELSE "following_true"],
    [p \in {0, 2} |-> IF p = 0 THEN "following_false" ELSE "not_a_dict"] }

\* get_programs, lines 401-405: the ids of followingPrograms that are followed
Followed(following) ==
  {p \in DOMAIN following : following[p] # "following_false"}

\* ---- workoutsOrder and StrengthLogClient._extract_workouts_order
\* A string is the sequence of its code points: "0".."9" are 48..57, "a" and
\* "b" are 97 and 98, and 178 is SUPERSCRIPT TWO, which str.isdigit() accepts
\* and int() rejects.
AsciiDigits == 48..57
OtherDigits == {178}

\* str.isdigit(): not empty, every character a digit
IsDigit(k) == k # << >> /\ \A i \in DOMAIN k : k[i] \in AsciiDigits \cup OtherDigits

\* int(k) raises ValueError
IntRaises(k) == \E i \in DOMAIN k : k[i] \notin AsciiDigits

RECURSIVE IntOf(_)
\* int(k) of a string of ASCII digits
IntOf(k) ==
  IF k = << >> THEN 0
  ELSE 10 * IntOf(SubSeq(k, 1, Len(k) - 1)) + (k[Len(k)] - 48)

RECURSIVE StrLess(_, _)
\* a < b of two str: by code points, a proper prefix first
StrLess(a, b) ==
  IF b = << >> THEN FALSE
  ELSE IF a = << >> THEN TRUE
  ELSE IF Head(a) # Head(b) THEN Head(a) < Head(b)
  ELSE StrLess(Tail(a), Tail(b))

\* the sort key of an item: int(key) if key.isdigit() else key; and the order
\* of two keys of one type
KeyLess(x, y) ==
  IF IsDigit(x.k) THEN IntOf(x.k) < IntOf(y.k) ELSE StrLess(x.k, y.k)

RECURSIVE InsertItem(_, _)
InsertItem(s, x) ==
  IF s = << >> THEN << x >>
  ELSE IF KeyLess(x, Head(s))
       THEN << x >> \o s
       ELSE << Head(s) >> \o InsertItem(Tail(s), x)

RECURSIVE SortItems(_)
\* sorted(wo.items(), key=...): stable
SortItems(s) ==
  IF s = << >> THEN << >>
  ELSE InsertItem(SortItems(SubSeq(s, 1, Len(s) - 1)), s[Len(s)])

Raises(e) == [raised |-> e, value |-> << >>]
Returns(v) == [raised |-> "none", value |-> v]

\* _extract_workouts_order of workoutsOrder: a mapping given as its items in
\* iteration order, a list, or neither.  sorted() first computes every key
\* (int() may raise ValueError), then compares them: int with str raises
\* TypeError.
ExtractWorkoutsOrder(wo) ==
  CASE wo.kind = "dict" ->
         LET items == wo.items
             digit == {i \in DOMAIN items : IsDigit(items[i].k)}
         IN IF \E i \in digit : IntRaises(items[i].k)
            THEN Raises("ValueError")
            ELSE IF digit # {} /\ digit # DOMAIN items
            THEN Raises("TypeError")
            ELSE LET sorted == SortItems(items)
                 IN Returns([i \in DOMAIN sorted |-> sorted[i].v])
    [] wo.kind = "list" -> Returns(wo.items)
    [] OTHER -> Returns(<< >>)

Item(k, v) == [k |-> k, v |-> v]

\* ---- the display name of an exercise: _parse_exercise
\* An exercise document is [loc, name]: loc maps each language to "absent",
\* "empty" (the empty string) or "text"; name is [kind, map, flat], a localized
\* map, a flat string or nothing.  A text is written as the place it stands
\* at: "loc.en", "name.sv", "name", and "id" for the document id.
Langs == {"en", "sv", "de"}

\* m.get(lang, {}).get("stringValue", "") is not empty
HasText(m, lang) == m[lang] = "text"

\* _parse_exercise, lines 169-181
ParseExerciseName(doc) ==
  LET name_field == IF doc.name.kind = "map" THEN doc.name.map
                    ELSE [l \in Langs |-> "absent"]
  IN CASE HasText(doc.loc, "en") -> "loc.en"
       [] HasText(doc.loc, "sv") -> "loc.sv"
       [] HasText(name_field, "en") -> "name.en"
       [] HasText(name_field, "sv") -> "name.sv"
       [] doc.name.kind = "flat" /\ doc.name.flat = "text" -> "name"
       [] OTHER -> "id"

\* ---- the sets of a workout: _parse_workout and _parse_program_sets
\* A set on the wire is [id, has, order, ex]: id is its place in the iteration
\* order of the wire mapping or sequence, counted from 0; has says whether its
\* order is an integer ("int", the value in order), is missing ("absent"), or
\* is something else ("other"); ex says whether it names an exercise.
NotSorted(s) == s

RECURSIVE InsertByOrder(_, _)
InsertByOrder(s, x) ==
  IF s = << >> THEN << x >>
  ELSE IF x.order < Head(s).order
       THEN << x >> \o s
       ELSE << Head(s) >> \o InsertByOrder(Tail(s), x)

RECURSIVE SortByOrderTail(_)
SortByOrderTail(s) ==
  IF s = << >> THEN << >>
  ELSE InsertByOrder(SortByOrderTail(SubSeq(s, 1, Len(s) - 1)), s[Len(s)])

\* sets.sort(key=lambda s: s.order) / sets_list.sort(key=lambda x: x[0]): stable
SortByOrder(s) == SortByOrderTail(s)

\* _parse_set, line 248: int(fields.get("order", {}).get("integerValue", 0));
\* a value int() cannot read raises, and the set is left out
ParseSetOrder(e) == IF e.has = "int" THEN e.order ELSE 0

\* _parse_workout, lines 228-235
ParseWorkoutSets(sets_field) ==
  LET kept == SelectSeq(sets_field, LAMBDA e : e.has # "other")
  IN SortByOrder([i \in DOMAIN kept |-> [id |-> kept[i].id, order |-> ParseSetOrder(kept[i])]])

\* _parse_program_sets: the mapping encoding takes order, or 0 when it is
\* missing or no int; the sequence encoding takes order, or the position
ParseProgramSets(sets_raw) ==
  CASE sets_raw.kind = "dict" ->
         LET sets_list == [i \in DOMAIN sets_raw.entries |->
                             [id |-> sets_raw.entries[i].id,
                              order |-> ParseSetOrder(sets_raw.entries[i]),
                              ex |-> sets_raw.entries[i].ex]]
         IN SelectSeq(SortByOrder(sets_list), LAMBDA e : e.ex)
    [] sets_raw.kind = "list" ->
         LET sets_list == [i \in DOMAIN sets_raw.entries |->
                             [id |-> sets_raw.entries[i].id,
                              order |-> IF sets_raw.entries[i].has = "int"
                                        THEN sets_raw.entries[i].order
                                        ELSE i - 1,
                              ex |-> sets_raw.entries[i].ex]]
         IN SelectSeq(SortByOrder(sets_list), LAMBDA e : e.ex)
    [] OTHER -> << >>

\* workoutsOrder of a program document: absent, a list, an index -> id mapping
\* with digit keys out of order, a mapping with a digit and a letter key
WorkoutsOrders ==
  { [kind |-> "absent"],
    [kind |-> "list", items |-> << "wA" >>],
    [kind |-> "dict", items |-> << Item(<< 50 >>, "wB"), Item(<< 48 >>, "wA") >>],
    [kind |-> "dict", items |-> << Item(<< 48 >>, "wA"), Item(<< 97 >>, "wB") >>] }

\* a program workout sub-document: decodable with the exercise ids of its
\* sets, or not decodable
WorkoutBodies ==
  { [ok |-> TRUE, sets |-> s] : s \in { << >>, << "e1" >>, << "e2", "e1" >> } }
    \cup { [ok |-> FALSE, sets |-> << >>] }

Bodies ==
  CASE site = "ex_lib" -> Libraries
    [] site = "log_page" ->
         { [docs |-> d, next |-> n] : d \in LogPages,
             n \in {FALSE} \cup {m \in {TRUE} : local.next_page_token < MaxPages} }
    [] site = "ex_doc" -> Names \cup {""}
    [] site = "profile" -> Followings
    [] site = "user_programs" ->
         { [docs |-> PageDocs(local.next_page_token), next |-> n] :
             n \in {FALSE} \cup {m \in {TRUE} : local.next_page_token < MaxPages} }
    [] site = "global_prog" -> {"doc"}
    [] site = "program_doc" -> WorkoutsOrders
    [] site = "workout_doc" -> WorkoutBodies
    [] OTHER -> {}

KindOf(s) ==
  CASE s \in {"ex_lib", "log_page", "ex_doc"} -> "request"
    [] s = "user_programs" -> "collection"
    [] OTHER -> "document"

\* ------------------------------------------------------------ one request
\* the request function ends: it returns, breaks or raises e
Ended(f, e, status) ==
  /\ fetch' = [f EXCEPT !.result = e, !.status = status]
  /\ fpc' = "return"

\* client.request / client.get with headers=self._auth.get_auth_header()
Send(f, tok, expiry, nextpc) ==
  IF tok = None
  THEN Ended(f, "AuthenticationError", 0) /\ UNCHANGED sent
  ELSE /\ sent' = [token |-> tok, expired |-> IsExpired(expiry, now), site |-> site]
       /\ fetch' = [f EXCEPT !.sends = @ + 1]
       /\ fpc' = nextpc

\* self._auth.refresh() up to its POST: raises when no refresh token is held
RefreshCall(f, nextpc) ==
  IF refresh_token = None
  THEN /\ auth_log' = AuthLog("refresh_no_token", RefreshError("no_token"), 0, 0)
       /\ Ended([f EXCEPT !.refreshes = @ + 1], RefreshError("no_token"), 0)
  ELSE /\ fetch' = [f EXCEPT !.refreshes = @ + 1]
       /\ fpc' = nextpc
       /\ UNCHANGED auth_log

CallNoEnsure ==
  /\ fpc = "call"
  /\ Send([fetch EXCEPT !.auth0 = is_authenticated, !.expired0 = is_token_expired],
          id_token, token_expiry, "await1")
  /\ UNCHANGED << authVars, issued, auth_log >>
  /\ UNCHANGED << exercises_cache, now, op, site, local, outcome >>
  /\ UNCHANGED pureVars

\* entry of _request / _fetch_document / _fetch_collection up to the first await:
\* _ensure_authenticated, then the first send.  _fetch_collection runs
\* _ensure_authenticated once, before its loop: a later page is sent at once.
Call ==
  /\ fpc = "call"
  /\ LET ensure == ~(fetch.kind = "collection" /\ local.next_page_token > 0)
         f0 == [fetch EXCEPT !.auth0 = is_authenticated, !.expired0 = is_token_expired]
     IN IF ensure /\ ~is_authenticated
        THEN Ended(f0, "AuthenticationError", 0) /\ UNCHANGED << sent, auth_log >>
        ELSE IF ensure /\ is_token_expired
        THEN RefreshCall(f0, "pre_refresh") /\ UNCHANGED sent
        ELSE Send(f0, id_token, token_expiry, "await1") /\ UNCHANGED auth_log
  /\ UNCHANGED << authVars, issued >>
  /\ UNCHANGED << exercises_cache, now, op, site, local, outcome >>
  /\ UNCHANGED pureVars

\* the identity service answers the refresh POST: 200 with a new pair, or not
RefreshResponse ==
  /\ fpc \in {"pre_refresh", "refresh401"}
  /\ \/ \E e \in ExpiresInValues :
          /\ issued < MaxIssued
          /\ issued' = issued + 1
          /\ RefreshUpdate(issued + 1, e)
          /\ auth_log' = AuthLog("refresh_ok", "none", e, issued + 1)
          /\ Send(fetch, id_token', token_expiry',
                  IF fpc = "pre_refresh" THEN "await1" ELSE "await2")
     \/ /\ auth_log' = AuthLog("refresh_rejected", RefreshError("rejected"), 0, 0)
        /\ Ended(fetch, RefreshError("rejected"), 0)
        /\ UNCHANGED << authVars, issued, sent >>
     \/ /\ Ended(fetch, "TransportError", 0)
        /\ UNCHANGED << authVars, issued, sent, auth_log >>
  /\ UNCHANGED << exercises_cache, now, op, site, local, outcome >>
  /\ UNCHANGED pureVars

\* the document store answers a request with a status, or the transport fails
DocResponse ==
  /\ fpc \in {"await1", "await2"}
  /\ \/ \E s \in Statuses :
          LET f == [fetch EXCEPT !.last = s, !.first = IF fpc = "await1" THEN s ELSE @]
          IN IF s = 401 /\ fpc = "await1"
             THEN RefreshCall(f, "refresh401")
             ELSE /\ UNCHANGED auth_log
                  /\ IF s >= 400
                     THEN IF fetch.kind = "collection"
                          THEN Ended(f, "break", s)
                          ELSE Ended(f, "APIError", s)
                     ELSE \E b \in Bodies : Ended([f EXCEPT !.body = b], "returned", s)
     \/ Ended(fetch, "TransportError", 0) /\ UNCHANGED auth_log
  /\ UNCHANGED << authVars, issued, sent >>
  /\ UNCHANGED << exercises_cache, now, op, site, local, outcome >>
  /\ UNCHANGED pureVars

\* ------------------------------------------------------------ operations
Min(a, b) == IF a < b THEN a ELSE b

RECURSIVE InsertWorkout(_, _)
InsertWorkout(s, x) ==
  IF s = << >> THEN << x >>
  ELSE IF Head(s).start_time >= x.start_time
       THEN << Head(s) >> \o InsertWorkout(Tail(s), x)
       ELSE << x >> \o s

InFetchOrder(s) == s

\* sorted(workouts, key=lambda w: w.start_time, reverse=True): stable
RECURSIVE SortWorkouts(_)
SortWorkouts(s) ==
  IF s = << >> THEN << >>
  ELSE InsertWorkout(SortWorkouts(SubSeq(s, 1, Len(s) - 1)), s[Len(s)])

\* the sort key of get_programs: (0 if followed or global else 1, name)
ProgramKeyLess(a, b) ==
  LET ga == IF a.source \in {"following", "global"} THEN 0 ELSE 1
      gb == IF b.source \in {"following", "global"} THEN 0 ELSE 1
  IN ga < gb \/ (ga = gb /\ a.name < b.name)

RECURSIVE InsertProgram(_, _)
InsertProgram(s, x) ==
  IF s = << >> THEN << x >>
  ELSE IF ProgramKeyLess(x, Head(s))
       THEN << x >> \o s
       ELSE << Head(s) >> \o InsertProgram(Tail(s), x)

RECURSIVE SortProgramsByNameOnly(_)
SortProgramsByNameOnly(s) ==
  IF s = << >> THEN << >>
  ELSE LET x == s[Len(s)]
           rest == SortProgramsByNameOnly(SubSeq(s, 1, Len(s) - 1))
           before == SelectSeq(rest, LAMBDA y : y.name <= x.name)
           after == SelectSeq(rest, LAMBDA y : y.name > x.name)
       IN before \o << x >> \o after

\* programs.sort(key=...): stable
RECURSIVE SortPrograms(_)
SortPrograms(s) ==
  IF s = << >> THEN << >>
  ELSE InsertProgram(SortPrograms(SubSeq(s, 1, Len(s) - 1)), s[Len(s)])

\* the request that has just ended raised an AuthenticationError or a
\* transport error
Raised ==
  fpc = "return"
    /\ fetch.result \in {"AuthenticationError", "TokenExpiredError", "TransportError"}

\* the operation ends: it returns value, or raises result
Finish(result, status, value) ==
  /\ op' = op /\ site' = "none" /\ fpc' = "done"
  /\ local' = InitLocal
  /\ fetch' = NewFetch("none")
  /\ outcome' = [op |-> op, result |-> result, status |-> status, value |-> value,
                 raised |-> local.raised \/ Raised,
                 left |-> [page |-> local.next_page_token, workouts |-> local.workouts,
                           named_at |-> local.named_at]]

\* the operation goes on to its next request
NextCall(s, l) ==
  /\ op' = op /\ site' = s /\ fpc' = "call"
  /\ local' = [l EXCEPT !.raised = @ \/ Raised]
  /\ fetch' = NewFetch(KindOf(s))
  /\ outcome' = outcome

\* _parse_workout / _parse_set and the since filter, lines 126-138, with the
\* cache c as it is after _resolve_exercise_names
ParsePage(l, c) ==
  LET parsed == [i \in DOMAIN l.docs |->
                   [page |-> l.next_page_token,
                    start_time |-> l.docs[i].start, exercise_id |-> l.docs[i].ex,
                    exercise_name |-> Get(c, l.docs[i].ex, l.docs[i].ex)]]
      keep(w) == l.since = None \/ ~(w.start_time < Val(l.since))
  IN l.workouts \o SelectSeq(parsed, keep)

ProgramDetailWithoutWorkouts(l, c) ==
  [workouts_order |-> l.workouts_order, source |-> l.source, fetched |-> l.fetched,
   workouts |-> None]

\* get_program, lines 499-510: the names are filled in from the cache c, and
\* the Program is given the workouts list, empty or not
ProgramDetail(l, c) ==
  [workouts_order |-> l.workouts_order, source |-> l.source, fetched |-> l.fetched,
   workouts |->
     Some([i \in DOMAIN l.pworkouts |->
             [id |-> l.pworkouts[i].id,
              sets |-> [j \in DOMAIN l.pworkouts[i].sets |->
                          [exercise_id |-> l.pworkouts[i].sets[j],
                           exercise_name |-> Get(c, l.pworkouts[i].sets[j],
                                                 l.pworkouts[i].sets[j])]]]])]

\* what follows _resolve_exercise_names in get_workouts (lines 126-144) and in
\* get_program (lines 499-510)
AfterResolve(l, c) ==
  IF op = "get_workouts"
  THEN LET ws == ParsePage(l, c)
       IN IF l.has_next
          THEN NextCall("log_page",
                        [l EXCEPT !.workouts = ws, !.next_page_token = @ + 1,
                                  !.docs = << >>, !.has_next = FALSE])
          ELSE Finish("ok", 0,
                      LET sorted == SortWorkouts(ws)
                      IN [workouts |-> SubSeq(sorted, 1, Min(l.limit, Len(sorted))),
                          log |-> l.log, since |-> l.since, limit |-> l.limit])
  ELSE Finish("ok", 0, ProgramDetail(l, c))

ResolveIgnoringCache(l) ==
  LET missing == l.all_exercise_ids
  IN IF missing = {}
     THEN AfterResolve(l, exercises_cache)
     ELSE \E x \in missing :
            NextCall("ex_doc", [l EXCEPT !.missing = missing \ {x}, !.ex_id = x])

\* _resolve_exercise_names, lines 147-148: the ids not in the cache, and the
\* first of them to fetch (a set is iterated in no particular order)
Resolve(l) ==
  LET missing == l.all_exercise_ids \ DOMAIN exercises_cache
  IN IF missing = {}
     THEN AfterResolve(l, exercises_cache)
     ELSE \E x \in missing :
            NextCall("ex_doc", [l EXCEPT !.missing = missing \ {x}, !.ex_id = x])

\* get_exercises, lines 79-86, and what its callers do next
AfterLibrary ==
  IF fetch.result = "returned"
  THEN /\ exercises_cache' = Merge(exercises_cache, fetch.body)
       /\ CASE op = "get_workouts" -> NextCall("log_page", local)
            [] op = "get_program" -> NextCall("program_doc", local)
            [] OTHER -> Finish("ok", 0, fetch.body)
  ELSE /\ exercises_cache' = exercises_cache
       /\ Finish(fetch.result, fetch.status, << >>)

AfterLogPagePartial ==
  /\ exercises_cache' = exercises_cache
  /\ IF fetch.result = "returned"
     THEN LET docs == fetch.body.docs
              ids == {docs[i].ex : i \in DOMAIN docs} \ {""}
          IN Resolve([local EXCEPT
                        !.all_exercise_ids = @ \cup ids, !.docs = docs,
                        !.has_next = fetch.body.next,
                        !.log = @ \o [i \in DOMAIN docs |->
                                        [page |-> local.next_page_token,
                                         start |-> docs[i].start]]])
     ELSE IF fetch.result = "APIError"
     THEN Finish("ok", 0, [workouts |-> local.workouts, log |-> local.log,
                           since |-> local.since, limit |-> local.limit])
     ELSE Finish(fetch.result, fetch.status, << >>)

\* get_workouts, lines 113-124: the exercise ids of the page join all_exercise_ids
AfterLogPage ==
  /\ exercises_cache' = exercises_cache
  /\ IF fetch.result = "returned"
     THEN LET docs == fetch.body.docs
              ids == {docs[i].ex : i \in DOMAIN docs} \ {""}
          IN Resolve([local EXCEPT
                        !.all_exercise_ids = @ \cup ids, !.docs = docs,
                        !.has_next = fetch.body.next,
                        !.log = @ \o [i \in DOMAIN docs |->
                                        [page |-> local.next_page_token,
                                         start |-> docs[i].start]]])
     ELSE Finish(fetch.result, fetch.status, << >>)

\* _resolve_exercise_names, lines 149-162: one id of the loop.  Whatever the
\* request raised is swallowed; a name found is cached.
AfterExDoc ==
  LET named == fetch.result = "returned" /\ fetch.body # ""
      c == IF named
           THEN Merge(exercises_cache, [x \in {local.ex_id} |-> fetch.body])
           ELSE exercises_cache
      l == [local EXCEPT
              !.ex_fetches[local.ex_id] = @ + (IF fetch.sends > 0 THEN 1 ELSE 0),
              !.named_at = IF named
                           THEN Merge(@, [x \in {local.ex_id} |-> local.next_page_token])
                           ELSE @]
  IN /\ exercises_cache' = c
     /\ IF l.missing # {}
        THEN \E x \in l.missing :
               NextCall("ex_doc", [l EXCEPT !.missing = @ \ {x}, !.ex_id = x])
        ELSE AfterResolve(l, c)

\* get_programs, lines 396-412: the followed ids of the profile; whatever the
\* profile fetch raised is swallowed
AfterProfile ==
  /\ exercises_cache' = exercises_cache
  /\ LET got == fetch.result = "returned"
         followed == IF got THEN Followed(fetch.body) ELSE {}
     IN NextCall("user_programs",
                 [local EXCEPT !.followed_ids = followed,
                               !.profile = IF got THEN Some(fetch.body) ELSE None])

\* models.Program as get_programs constructs it: no workouts argument, so the
\* field keeps its default, None
ListedProgram(id, source) ==
  [id |-> id, name |-> ProgName(id), source |-> source, workouts |-> None]

\* get_programs, line 449-450
FinishPrograms(l, programs) ==
  Finish("ok", 0, [programs |-> SortPrograms(programs), user_docs |-> l.all_docs,
                   broke_at |-> l.broke_at, profile |-> l.profile,
                   followed_ids |-> l.followed_ids, global_ok |-> l.global_ok,
                   global_failed |-> l.global_failed])

\* get_programs, lines 414-432, once _fetch_collection has returned docs
CollectionDone(l) ==
  LET docs == l.all_docs
      programs == [i \in DOMAIN docs |->
                     ListedProgram(docs[i], IF docs[i] \in l.followed_ids
                                            THEN "following" ELSE "user_programs")]
      found_ids == {docs[i] : i \in DOMAIN docs}
      todo == l.followed_ids \ found_ids
  IN IF todo = {}
     THEN FinishPrograms(l, programs)
     ELSE \E pid \in todo :
            NextCall("global_prog",
                     [l EXCEPT !.programs = programs, !.todo = todo \ {pid}, !.pid = pid])

PageBreakDropsDocs ==
  /\ exercises_cache' = exercises_cache
  /\ CASE fetch.result = "returned" ->
            LET l == [local EXCEPT !.all_docs = @ \o fetch.body.docs]
            IN IF fetch.body.next
               THEN NextCall("user_programs", [l EXCEPT !.next_page_token = @ + 1])
               ELSE CollectionDone(l)
       [] fetch.result = "break" ->
            CollectionDone([local EXCEPT !.broke_at = local.next_page_token,
                                         !.all_docs = << >>])
       [] OTHER -> Finish(fetch.result, fetch.status, << >>)

\* _fetch_collection, lines 377-388: one page of the loop.  An error status
\* breaks the loop and what was accumulated is returned.
AfterPage ==
  /\ exercises_cache' = exercises_cache
  /\ CASE fetch.result = "returned" ->
            LET l == [local EXCEPT !.all_docs = @ \o fetch.body.docs]
            IN IF fetch.body.next
               THEN NextCall("user_programs", [l EXCEPT !.next_page_token = @ + 1])
               ELSE CollectionDone(l)
       [] fetch.result = "break" ->
            CollectionDone([local EXCEPT !.broke_at = local.next_page_token])
       [] OTHER -> Finish(fetch.result, fetch.status, << >>)

\* get_programs, lines 430-447: one followed program that is not the user's own;
\* whatever its fetch raised is swallowed
AfterGlobal ==
  /\ exercises_cache' = exercises_cache
  /\ LET got == fetch.result = "returned"
         programs == IF got
                     THEN Append(local.programs, ListedProgram(local.pid, "global"))
                     ELSE local.programs
         l == [local EXCEPT !.programs = programs,
                            !.global_ok = IF got THEN @ \cup {local.pid} ELSE @,
                            !.global_failed = IF got THEN @ ELSE @ \cup {local.pid}]
     IN IF l.todo = {}
        THEN FinishPrograms(l, programs)
        ELSE \E pid \in l.todo :
               NextCall("global_prog", [l EXCEPT !.todo = @ \ {pid}, !.pid = pid])

\* get_program, lines 464-469
AfterProgramDoc ==
  IF fetch.result = "returned"
  THEN LET order == ExtractWorkoutsOrder(fetch.body)
           l == [local EXCEPT !.workouts_order = order.value, !.wids = order.value]
       IN /\ exercises_cache' = exercises_cache
          /\ IF order.raised # "none" THEN Finish(order.raised, 0, << >>)
             ELSE IF order.value = << >> THEN Resolve(l)
             ELSE NextCall("workout_doc", l)
  ELSE /\ exercises_cache' = exercises_cache
       /\ Finish(fetch.result, fetch.status, << >>)

AfterWorkoutDocFailing ==
  /\ exercises_cache' = exercises_cache
  /\ LET wid == Head(local.wids)
         got == fetch.result = "returned" /\ fetch.body.ok
         l == [local EXCEPT
                 !.pworkouts = Append(@, [id |-> wid, sets |-> fetch.body.sets]),
                 !.all_exercise_ids =
                     @ \cup {fetch.body.sets[i] : i \in DOMAIN fetch.body.sets},
                 !.fetched = Append(@, [id |-> wid, ok |-> TRUE]),
                 !.wids = Tail(@)]
     IN IF ~got THEN Finish("failed", fetch.status, << >>)
        ELSE IF l.wids # << >>
        THEN NextCall("workout_doc", l)
        ELSE Resolve(l)

\* get_program, lines 471-498: one workout sub-document; whatever its fetch or
\* its decoding raised is swallowed and the workout is left out
AfterWorkoutDoc ==
  /\ exercises_cache' = exercises_cache
  /\ LET wid == Head(local.wids)
         got == fetch.result = "returned" /\ fetch.body.ok
         l == IF got
              THEN [local EXCEPT
                      !.pworkouts = Append(@, [id |-> wid, sets |-> fetch.body.sets]),
                      !.all_exercise_ids =
                          @ \cup {fetch.body.sets[i] : i \in DOMAIN fetch.body.sets},
                      !.fetched = Append(@, [id |-> wid, ok |-> TRUE]),
                      !.wids = Tail(@)]
              ELSE [local EXCEPT !.fetched = Append(@, [id |-> wid, ok |-> FALSE]),
                                 !.wids = Tail(@)]
     IN IF l.wids # << >>
        THEN NextCall("workout_doc", l)
        ELSE Resolve(l)

\* the request function has ended: the operation takes its result, or what it
\* raised, and runs to its next request or to its end
Return ==
  /\ fpc = "return"
  /\ CASE site = "ex_lib" -> AfterLibrary
       [] site = "log_page" -> AfterLogPage
       [] site = "ex_doc" -> AfterExDoc
       [] site = "profile" -> AfterProfile
       [] site = "user_programs" -> AfterPage
       [] site = "global_prog" -> AfterGlobal
       [] site = "program_doc" -> AfterProgramDoc
       [] site = "workout_doc" -> AfterWorkoutDoc
  /\ UNCHANGED << authVars, now, issued, sent, auth_log >>
  /\ UNCHANGED pureVars

\* the caller has the result of the operation, or what it raised
Deliver ==
  /\ fpc = "done"
  /\ op' = "idle" /\ fpc' = "idle"
  /\ outcome' = NoOutcome /\ sent' = NoSent /\ auth_log' = NoAuthLog
  /\ UNCHANGED << authVars, exercises_cache, now, issued, site, local, fetch >>
  /\ UNCHANGED pureVars

Begin(o, s, l) ==
  /\ op = "idle"
  /\ op' = o /\ site' = s /\ fpc' = "call"
  /\ local' = l
  /\ fetch' = NewFetch(KindOf(s))
  /\ auth_log' = NoAuthLog
  /\ UNCHANGED << authVars, exercises_cache, now, issued, sent, outcome >>
  /\ UNCHANGED pureVars

\* StrengthLogClient.get_exercises, lines 73-77
GetExercises == Begin("get_exercises", "ex_lib", InitLocal)

\* StrengthLogClient.get_workouts, lines 94-111
GetWorkouts(args) ==
  Begin("get_workouts",
        IF exercises_cache = EmptyMap THEN "ex_lib" ELSE "log_page",
        [InitLocal EXCEPT !.since = args.since, !.limit = args.limit])

\* StrengthLogClient.get_programs, lines 394-398
GetPrograms == Begin("get_programs", "profile", InitLocal)

\* StrengthLogClient.get_program, lines 454-464
GetProgram(source) ==
  Begin("get_program",
        IF exercises_cache = EmptyMap THEN "ex_lib" ELSE "program_doc",
        [InitLocal EXCEPT !.source = source])

\* ------------------------------------------------------------ specifications
Next ==
  \/ \E e \in ExpiresInValues : Login(e)
  \/ LoginRejected
  \/ \E st \in RestoreStates : RestoreAuthState(st)
  \/ now < MaxTicks * TickStep /\ Tick(TickStep)
  \/ GetExercises
  \/ \E args \in WorkoutArgs : GetWorkouts(args)
  \/ GetPrograms
  \/ \E source \in {"user_programs", "global"} : GetProgram(source)
  \/ Call
  \/ RefreshResponse
  \/ DocResponse
  \/ Return
  \/ Deliver

Spec == Init /\ [][Next]_vars

\* The one-second clock: the auth session alone, for the expiry arithmetic.
ClockExpiresIn == {DefaultExpiresIn, Margin + 1}

ClockNext ==
  \/ now <= MaxLoginAt /\ \E e \in ClockExpiresIn : Login(e)
  \/ now <= MaxLoginAt /\ \E st \in RestoreStates : RestoreAuthState(st)
  \/ now < MaxClock /\ Tick(1)

SpecClock == Init /\ [][ClockNext]_vars

\* The parsing functions: each is given one decoded document and run once.
\* the keys of a workoutsOrder mapping: "", "0", "1", "2", "10", "01", "a",
\* "b" and "a1"
OrderKeys ==
  { << >>, << 48 >>, << 49 >>, << 50 >>, << 49, 48 >>, << 48, 49 >>,
    << 97 >>, << 98 >>, << 97, 49 >> }

\* the sequences of at most n distinct elements of S
DistinctSeqs(S, n) ==
  UNION { {q \in [1..m -> S] : \A i, j \in 1..m : i # j => q[i] # q[j]} : m \in 0..n }

\* workoutsOrder values: no value, lists of ids, mappings in every iteration
\* order; here a workout id is spelled like its key
OrderInputs ==
  { [kind |-> "absent"] }
    \cup { [kind |-> "list", items |-> q] : q \in DistinctSeqs(OrderKeys, MaxKeys) }
    \cup { [kind |-> "dict", items |-> [i \in DOMAIN q |-> Item(q[i], q[i])]] :
             q \in DistinctSeqs(OrderKeys, MaxKeys) }

\* the order fields of a set on the wire
SetOrders ==
  { [has |-> "int", order |-> n] : n \in 0..2 }
    \cup { [has |-> "absent", order |-> 0], [has |-> "other", order |-> 0] }

\* the set collections of at most MaxSets sets, in every iteration order
SetSeqs(orders, exs) ==
  UNION { { [i \in 1..m |-> [id |-> i - 1, has |-> q[i].has, order |-> q[i].order,
                               ex |-> x[i]]] :
              q \in [1..m -> orders], x \in [1..m -> exs] } : m \in 0..MaxSets }

\* the sets field of a workout document of the log
WorkoutSetInputs == SetSeqs(SetOrders, {TRUE})

\* the sets value of a program workout sub-document: a mapping, a sequence
\* whose explicit orders are integers, or nothing
ProgramSetInputs ==
  { [kind |-> "absent", entries |-> << >>] }
    \cup { [kind |-> "dict", entries |-> q] : q \in SetSeqs(SetOrders, {TRUE, FALSE}) }
    \cup { [kind |-> "list", entries |-> q] :
             q \in SetSeqs({o \in SetOrders : o.has # "other"}, {TRUE, FALSE}) }

\* localized maps, and the name field of an exercise document
LangMaps == [Langs -> {"absent", "empty", "text"}]

NameFields ==
  { [kind |-> "none", map |-> [l \in Langs |-> "absent"], flat |-> "absent"] }
    \cup { [kind |-> "map", map |-> m, flat |-> "absent"] : m \in LangMaps }
    \cup { [kind |-> "flat", map |-> [l \in Langs |-> "absent"], flat |-> f] :
             f \in {"empty", "text"} }

ExerciseDocs == { [loc |-> m, name |-> n] : m \in LangMaps, n \in NameFields }

ParseInputs ==
  { [kind |-> "workoutsOrder", wo |-> wo] : wo \in OrderInputs }
    \cup { [kind |-> "exercise", doc |-> d] : d \in ExerciseDocs }
    \cup { [kind |-> "workout", sets |-> q] : q \in WorkoutSetInputs }
    \cup { [kind |-> "program_workout", sets |-> q] : q \in ProgramSetInputs }

InitParse ==
  /\ InitClient
  /\ wire \in ParseInputs
  /\ assembled = NoAssembled

\* _extract_workouts_order(program_data)
ExtractOrder ==
  /\ wire.kind = "workoutsOrder" /\ assembled = NoAssembled
  /\ assembled' = [kind |-> "workouts_order", out |-> ExtractWorkoutsOrder(wire.wo)]
  /\ UNCHANGED << clientVars, wire >>

\* _parse_workout(doc), its sets
ParseWorkout ==
  /\ wire.kind = "workout" /\ assembled = NoAssembled
  /\ assembled' = [kind |-> "workout", sets |-> ParseWorkoutSets(wire.sets)]
  /\ UNCHANGED << clientVars, wire >>

\* _parse_program_sets(wdata)
ParseProgramWorkout ==
  /\ wire.kind = "program_workout" /\ assembled = NoAssembled
  /\ assembled' = [kind |-> "program_workout", sets |-> ParseProgramSets(wire.sets)]
  /\ UNCHANGED << clientVars, wire >>

\* _parse_exercise(doc)
ParseExercise ==
  /\ wire.kind = "exercise" /\ assembled = NoAssembled
  /\ assembled' = [kind |-> "exercise", name |-> ParseExerciseName(wire.doc)]
  /\ UNCHANGED << clientVars, wire >>

ParseNext ==
  \/ ExtractOrder
  \/ ParseExercise
  \/ ParseWorkout
  \/ ParseProgramWorkout

SpecParse == InitParse /\ [][ParseNext]_vars

\* ------------------------------------------------------------ claims
Single == fetch.kind \in {"request", "document"}
RefreshFailed == fetch.result \in {"AuthenticationError", "TokenExpiredError"}

\* C1 as stated: a single-document fetch by an authenticated client refreshes
\* an expired credential before the first send; after a first 401 it refreshes
\* once more and resends exactly once; a final status >= 400 gives APIError
\* with that status, anything else returns the body; at most two sends and two
\* refreshes.  (Read of the calls that got a response and met no transport
\* failure: the claim is not about the others.)
C1_AsStated ==
  (fpc = "return" /\ Single /\ fetch.auth0 /\ fetch.sends >= 1
     /\ fetch.result # "TransportError") =>
    /\ fetch.sends <= 2 /\ fetch.refreshes <= 2
    /\ (fetch.expired0 => fetch.refreshes >= 1)
    /\ (fetch.first = 401 => fetch.sends = 2)
    /\ IF fetch.last >= 400
       THEN fetch.result = "APIError" /\ fetch.status = fetch.last
       ELSE fetch.result = "returned"

\* C1, amended: as stated, except that a refresh that fails (no refresh token
\* held, or the exchange rejected) ends the call with the refresh's
\* AuthenticationError and nothing more is sent.  A single-document fetch by
\* an authenticated client: sends at most two requests and calls refresh at
\* most twice; sends nothing with a credential that was expired at entry
\* unless it refreshed first; after a first 401 calls refresh exactly once
\* more and resends exactly once if that refresh succeeds; ends with APIError
\* carrying the status exactly when the response finally considered is >= 400,
\* and returns the body exactly when it is below 400.
C1_SingleFetch ==
  (fpc = "return" /\ Single /\ fetch.auth0) =>
    /\ fetch.sends <= 2 /\ fetch.refreshes <= 2
    /\ (fetch.expired0 => fetch.refreshes >= 1)
    /\ (fetch.first # 401 => fetch.sends <= 1)
    /\ (fetch.first = 401 =>
          /\ fetch.refreshes = (IF fetch.expired0 THEN 2 ELSE 1)
          /\ fetch.sends = 2 \/ (fetch.sends = 1 /\ (RefreshFailed \/ fetch.result = "TransportError")))
    /\ (fetch.sends = 0 => RefreshFailed \/ fetch.result = "TransportError")
    /\ (fetch.result # "TransportError" =>
          /\ (fetch.result = "APIError" <=>
                fetch.last >= 400 /\ (fetch.sends = 2 \/ fetch.last # 401))
          /\ (fetch.result = "returned" <=> fetch.last \in 1..399))
    /\ (fetch.result = "APIError" => fetch.status = fetch.last)
    /\ (fetch.result \in {"APIError", "returned"} \/ RefreshFailed
          \/ fetch.result = "TransportError")

\* C1 witness: an expired credential, refreshed, a first 401, a second refresh,
\* a second 401: APIError 401 after two sends and two refreshes
C1_Witness ==
  /\ fpc = "return" /\ fetch.kind = "document" /\ fetch.auth0 /\ fetch.expired0
  /\ fetch.first = 401 /\ fetch.sends = 2 /\ fetch.refreshes = 2
  /\ fetch.result = "APIError" /\ fetch.status = 401

RECURSIVE PagesUpTo(_)
\* the documents of pages 0..k-1 of the user's programs, in page order
PagesUpTo(k) == IF k <= 0 THEN << >> ELSE PagesUpTo(k - 1) \o PageDocs(k - 1)

Collection == fpc = "return" /\ fetch.kind = "collection"

\* C2 as stated: when the request for page k >= 1 of fetchCollection gets an
\* error response (any status >= 400, 401 included), the call raises nothing
\* and returns exactly the documents of pages 0..k-1
C2_AsStated ==
  /\ (Collection /\ local.next_page_token >= 1 /\ fetch.first >= 400
        /\ fetch.result # "TransportError") =>
       /\ fetch.result = "break"
       /\ local.all_docs = PagesUpTo(local.next_page_token)
  /\ (local.broke_at >= 1 => local.all_docs = PagesUpTo(local.broke_at))

\* C2, amended: when the response finally considered for page k >= 1 (the
\* response to the resend when the first one was 401 and the refresh
\* succeeded) has a status >= 400, the call raises nothing and returns exactly
\* the documents of pages 0..k-1 in page order; a first 401 followed by a
\* failed refresh raises the refresh's AuthenticationError, and a first 401
\* followed by a successful resend goes on with page k.
C2_PartialPages ==
  /\ (Collection /\ fetch.result # "TransportError") =>
       /\ (fetch.result = "break" <=>
             fetch.last >= 400 /\ (fetch.sends = 2 \/ fetch.last # 401))
       /\ (fetch.first = 401 /\ fetch.sends = 1 => RefreshFailed)
       /\ (fetch.last \in 1..399 <=> fetch.result = "returned")
       /\ local.all_docs = PagesUpTo(local.next_page_token)
  /\ (local.broke_at >= 1 =>
        /\ op = "get_programs"
        /\ local.all_docs = PagesUpTo(local.broke_at))
  /\ (outcome.op = "get_programs" /\ outcome.result = "ok" /\ outcome.value.broke_at >= 1 =>
        outcome.value.user_docs = PagesUpTo(outcome.value.broke_at))
  /\ (outcome.op = "get_programs" /\ outcome.result # "ok" =>
        outcome.result \in {"AuthenticationError", "TokenExpiredError", "TransportError"})

\* C2 witness: list-programs ended normally after page 1 was answered with an
\* error; the listing gave the two documents of page 0
C2_Witness ==
  /\ outcome.op = "get_programs" /\ outcome.result = "ok"
  /\ outcome.value.broke_at = 1
  /\ outcome.value.user_docs = PageDocs(0)

\* C3 as stated: every document-store request carries the bearer token the
\* session holds and is sent with a credential that is not expired
C3_AsStated ==
  sent.site # "none" => sent.token = id_token /\ ~sent.expired

\* C4 as stated: once a refresh was rejected the session is unauthenticated
C4_AsStated ==
  auth_log.event = "refresh_rejected" => ~is_authenticated

\* C5: is_expired is true exactly when no expiry is recorded or at most 300
\* seconds are left to the expiry: expired with exactly 300 s left, not with 301
C5_ExpiredWithinMargin ==
  /\ (token_expiry = None => is_token_expired)
  /\ (token_expiry # None =>
        /\ (is_token_expired <=> Val(token_expiry) - now <= 300)
        /\ (Val(token_expiry) - now = 300 => is_token_expired)
        /\ (Val(token_expiry) - now = 301 => ~is_token_expired))

\* C5 witness: a credential with exactly 300 seconds left, found expired
C5_Witness ==
  /\ token_expiry # None /\ Val(token_expiry) - now = 300 /\ is_token_expired
  /\ auth_log.event = "login_ok"

LoggedIn3600 == auth_log.event = "login_ok" /\ auth_log.expires_in = 3600

\* C6 as stated: after a login with expiresIn = 3600 the credential is not
\* expired during the next 3595 seconds and expired thereafter
C6_AsStated ==
  LoggedIn3600 => (is_token_expired <=> now - auth_log.at > 3595)

\* C6, amended: after a login with expiresIn = 3600 the credential is not
\* expired at every instant less than 3300 seconds after the login, and is
\* expired from 3300 seconds after the login on (3600 s less the 300 s margin)
C6_ValidFor3300 ==
  LoggedIn3600 => (is_token_expired <=> now - auth_log.at >= 3300)

\* C6 witness: 3299 seconds after the login the credential is still usable
C6_Witness ==
  LoggedIn3600 /\ now - auth_log.at = 3299 /\ ~is_token_expired

\* C7 as stated: refresh() raises TokenExpiredError when no refresh token is
\* held and when the exchange is rejected; on success it replaces the tokens
\* and the expiry
C7_AsStated ==
  /\ (auth_log.event \in {"refresh_no_token", "refresh_rejected"} =>
        auth_log.error = "TokenExpiredError")
  /\ (auth_log.event = "refresh_ok" =>
        /\ id_token = Some(auth_log.token) /\ refresh_token = Some(auth_log.token)
        /\ token_expiry = Some(auth_log.at + auth_log.expires_in))

\* C7, amended: refresh() raises the plain AuthenticationError when no refresh
\* token is held and TokenExpiredError when the exchange is rejected; on
\* success it replaces the bearer token, the refresh token and the expiry
C7_RefreshErrors ==
  /\ (auth_log.event = "refresh_no_token" =>
        auth_log.error = "AuthenticationError" /\ refresh_token = None)
  /\ (auth_log.event = "refresh_rejected" => auth_log.error = "TokenExpiredError")
  /\ (auth_log.event = "refresh_ok" =>
        /\ auth_log.token = issued
        /\ id_token = Some(auth_log.token) /\ refresh_token = Some(auth_log.token)
        /\ token_expiry = Some(auth_log.at + auth_log.expires_in))

\* C7 witness: a refresh without a refresh token has raised
C7_Witness ==
  auth_log.event = "refresh_no_token" /\ fpc = "return" /\ fetch.result = "AuthenticationError"

\* C8 as stated: when a request of a read operation has raised an
\* AuthenticationError or a transport error, the operation ends with such an
\* error: it does not return a result
C8_AsStated ==
  (fpc = "done" /\ outcome.raised) =>
    outcome.result \in {"AuthenticationError", "TokenExpiredError", "TransportError"}

NamedAt(e) == Get(local.named_at, e, -1)

\* C9 as stated: during one list-workouts call an id that is not cached is
\* fetched at most once, and every set referencing a resolved id carries the
\* resolved name
C9_AsStated ==
  op = "get_workouts" =>
    /\ \A e \in ExIds : local.ex_fetches[e] <= 1
    /\ \A i \in DOMAIN local.workouts :
         local.workouts[i].exercise_id \in DOMAIN exercises_cache =>
           local.workouts[i].exercise_name = exercises_cache[local.workouts[i].exercise_id]

\* C9, amended: during one list-workouts call an id that is not cached is
\* fetched at most once for each page of the log fetched so far, and never
\* while it is in the cache (so at most once when its first fetch yields a
\* name); every set of a workout on the page where its id got its name, or on
\* a later page, carries the resolved name, and every other set carries the
\* raw id
C9_FetchPerPage ==
  op = "get_workouts" =>
    /\ \A e \in ExIds : local.ex_fetches[e] <= local.next_page_token + 1
    /\ (site = "ex_doc" => local.ex_id \notin DOMAIN exercises_cache)
    /\ \A e \in DOMAIN local.named_at :
         e \in DOMAIN exercises_cache /\ local.ex_fetches[e] <= local.named_at[e] + 1
    /\ \A i \in DOMAIN local.workouts :
         LET w == local.workouts[i]
         IN IF w.exercise_id \in DOMAIN exercises_cache /\ NamedAt(w.exercise_id) <= w.page
            THEN w.exercise_name = exercises_cache[w.exercise_id]
            ELSE w.exercise_name = w.exercise_id

\* C9 witness: two workout documents of one page share an id that was not
\* cached; it was fetched once and both sets carry the name
C9_Witness ==
  /\ op = "get_workouts" /\ Len(local.workouts) = 2
  /\ local.ex_fetches["e1"] = 1 /\ "e1" \in DOMAIN local.named_at
  /\ \A i \in 1..2 : /\ local.workouts[i].exercise_id = "e1"
                     /\ local.workouts[i].exercise_name = exercises_cache["e1"]
                     /\ local.workouts[i].exercise_name # "e1"

\* C10 as stated: no id is ever removed from the name cache and the name
\* cached for an id is never replaced by a different name
C10_AsStated ==
  [][ \A e \in DOMAIN exercises_cache :
        e \in DOMAIN exercises_cache' /\ exercises_cache'[e] = exercises_cache[e] ]_vars

\* C10, amended: no id is ever removed from the name cache; the name cached
\* for an id is replaced only by get_exercises, which overwrites it with the
\* name the library gives (last write wins): login, restore_auth_state,
\* get_programs and the per-id resolution of get_workouts and get_program
\* never change an entry
C10_CacheGrows ==
  [][ \A e \in DOMAIN exercises_cache :
        /\ e \in DOMAIN exercises_cache'
        /\ (exercises_cache'[e] # exercises_cache[e] =>
              /\ site = "ex_lib" /\ fpc = "return" /\ fetch.result = "returned"
              /\ e \in DOMAIN fetch.body /\ exercises_cache'[e] = fetch.body[e]) ]_vars

\* C10 witness: both ids are cached and the session was just restored
C10_Witness ==
  DOMAIN exercises_cache = ExIds /\ auth_log.event = "restore"

\* ------------------------------------------------------------ list-programs
ListDone == fpc = "done" /\ outcome.op = "get_programs" /\ outcome.result = "ok"

ProgramGroup(p) == IF p.source \in {"following", "global"} THEN 0 ELSE 1

DetailDone == fpc = "done" /\ outcome.op = "get_program" /\ outcome.result = "ok"

\* C12: the workouts field is None in every Program of a list-programs result
\* and is a sequence, empty or not, never None, in the Program that program
\* detail returns
C12_WorkoutsPresence ==
  /\ ListDone =>
       \A i \in DOMAIN outcome.value.programs : outcome.value.programs[i].workouts = None
  /\ DetailDone =>
       /\ outcome.value.workouts # None
       /\ Len(Val(outcome.value.workouts)) <= Len(outcome.value.workouts_order)

\* C12 witness: a program detail none of whose workout sub-documents could be
\* used: the workouts field is the empty sequence, not None
C12_Witness ==
  /\ DetailDone
  /\ outcome.value.workouts_order # << >>
  /\ outcome.value.workouts = Some(<< >>)

\* ------------------------------------------------------------ workoutsOrder
AllDigitKeys(items) == \A i \in DOMAIN items : IsDigit(items[i].k)

\* C13 as stated: _extract_workouts_order fails on no key set; a list gives
\* its ids in list order; a mapping gives all its ids, in ascending numeric
\* order of the keys when the keys are digit strings and in lexical order of
\* the keys otherwise
C13_AsStated ==
  assembled.kind = "workouts_order" =>
    LET wo == wire.wo
        out == assembled.out
    IN /\ out.raised = "none"
       /\ (wo.kind = "absent" => out.value = << >>)
       /\ (wo.kind = "list" => out.value = wo.items)
       /\ (wo.kind = "dict" =>
             /\ Len(out.value) = Len(wo.items)
             /\ {out.value[i] : i \in DOMAIN out.value}
                  = {wo.items[i].v : i \in DOMAIN wo.items}
             /\ \A i, j \in DOMAIN out.value :
                  i < j => IF AllDigitKeys(wo.items)
                           THEN IntOf(out.value[i]) <= IntOf(out.value[j])
                           ELSE ~StrLess(out.value[j], out.value[i]))

\* ------------------------------------------------------------ set order
\* the sets of the wire that the assembled workout keeps
KeptIds ==
  IF wire.kind = "workout"
  THEN {wire.sets[i].id : i \in {j \in DOMAIN wire.sets : wire.sets[j].has # "other"}}
  ELSE {wire.sets.entries[i].id :
          i \in {j \in DOMAIN wire.sets.entries : wire.sets.entries[j].ex}}

WorkoutsDone == fpc = "done" /\ outcome.op = "get_workouts" /\ outcome.result = "ok"

\* C15: list-workouts(since, limit) returns, of the workout documents of all
\* pages of the log, those with start_time >= since (all when since is
\* absent), sorted descending by start_time and cut to the first limit: none
\* older than since, at most limit entries, none left out that is more recent
\* than one returned
C15_SinceLimitSort ==
  WorkoutsDone =>
    LET v == outcome.value
        W == v.workouts
        recent == {i \in DOMAIN v.log : v.since = None \/ v.log[i].start >= Val(v.since)}
        at(i) == CHOOSE c \in recent :
                   v.log[c].page = W[i].page /\ v.log[c].start = W[i].start_time
    IN /\ \A i \in DOMAIN W :
            /\ v.since # None => W[i].start_time >= Val(v.since)
            /\ \E c \in recent :
                 v.log[c].page = W[i].page /\ v.log[c].start = W[i].start_time
       /\ \A i, j \in DOMAIN W : i < j =>
            /\ W[i].start_time >= W[j].start_time
            /\ at(i) # at(j)
       /\ Len(W) <= v.limit
       /\ Len(W) = Min(v.limit, Cardinality(recent))
       /\ \A c \in recent \ {at(i) : i \in DOMAIN W} :
            \A i \in DOMAIN W : v.log[c].start <= W[i].start_time

\* C15 witness: a log of two pages with three workouts, the last fetched at 3,
\* since = 2 and limit = 1: the one at 3 is returned alone, found on the
\* second page
C15_Witness ==
  /\ WorkoutsDone
  /\ outcome.value.since = Some(2) /\ outcome.value.limit = 1
  /\ Len(outcome.value.log) = 3
  /\ outcome.value.log[3].start = 3
  /\ Len(outcome.value.workouts) = 1
  /\ outcome.value.workouts[1].start_time = 3 /\ outcome.value.workouts[1].page = 1

\* ------------------------------------------------------------ exercise name
\* the first language of a localized map that has a text: "en", else "sv",
\* else any other
FirstLang(m) ==
  CASE m["en"] = "text" -> "en"
    [] m["sv"] = "text" -> "sv"
    [] \E l \in Langs : m[l] = "text" -> CHOOSE l \in Langs : m[l] = "text"
    [] OTHER -> "none"

\* C16 as stated: the display name of an exercise is the first non-empty of:
\* the loc map ("en", else "sv", else any language present), the name map
\* (same order), the flat name, the document id
C16_AsStated ==
  assembled.kind = "exercise" =>
    LET d == wire.doc
    IN assembled.name =
         CASE FirstLang(d.loc) = "de" -> "loc.de"
           [] FirstLang(d.loc) # "none" -> IF FirstLang(d.loc) = "en" THEN "loc.en" ELSE "loc.sv"
           [] d.name.kind = "map" /\ FirstLang(d.name.map) = "de" -> "name.de"
           [] d.name.kind = "map" /\ FirstLang(d.name.map) # "none" ->
                IF FirstLang(d.name.map) = "en" THEN "name.en" ELSE "name.sv"
           [] d.name.kind = "flat" /\ d.name.flat = "text" -> "name"
           [] OTHER -> "id"

\* ------------------------------------------------------------ partial detail
\* the workout ids whose sub-document was fetched and decoded, in fetch order
Fetched(f) ==
  LET good == SelectSeq(f, LAMBDA x : x.ok)
  IN [i \in DOMAIN good |-> good[i].id]

\* C17: in program detail a workout sub-document whose fetch or decoding
\* fails is left out and nothing is raised: once the workouts are being
\* fetched the call ends with a Program; its workouts are the fetched ones in
\* workouts_order order, its workouts_order lists every id, every set has the
\* cached name or else the raw id, and the ids are resolved in one batch after
\* the last workout was fetched, each fetched at most once
C17_PartialDetail ==
  /\ [](DetailDone =>
         LET v == outcome.value
             W == Val(v.workouts)
         IN /\ [i \in DOMAIN v.fetched |-> v.fetched[i].id] = v.workouts_order
            /\ [i \in DOMAIN W |-> W[i].id] = Fetched(v.fetched)
            /\ \A i \in DOMAIN W : \A j \in DOMAIN W[i].sets :
                 W[i].sets[j].exercise_name =
                   Get(exercises_cache, W[i].sets[j].exercise_id, W[i].sets[j].exercise_id))
  /\ [](op = "get_program" =>
         /\ \A e \in ExIds : local.ex_fetches[e] <= 1
         /\ (site = "workout_doc" => \A e \in ExIds : local.ex_fetches[e] = 0)
         /\ (site = "ex_doc" => local.wids = << >>))
  /\ [][ (op = "get_program" /\ site \in {"workout_doc", "ex_doc"} /\ fpc' = "done")
          => outcome'.result = "ok" ]_vars

\* C17 witness: of two workouts the first could not be fetched; the detail
\* has the second alone, with one set named from the cache and one left with
\* its raw id, and workouts_order has both ids
C17_Witness ==
  /\ DetailDone
  /\ Len(outcome.value.workouts_order) = 2
  /\ ~outcome.value.fetched[1].ok /\ outcome.value.fetched[2].ok
  /\ Len(Val(outcome.value.workouts)) = 1
  /\ \E j, k \in DOMAIN Val(outcome.value.workouts)[1].sets :
       LET sets == Val(outcome.value.workouts)[1].sets
       IN /\ sets[j].exercise_name # sets[j].exercise_id
          /\ sets[k].exercise_name = sets[k].exercise_id

\* ------------------------------------------------------------ failed log page
\* the request for a page of the workout log has ended with a status >= 400
\* after the refresh and resend, if any
LogPageFailed ==
  /\ op = "get_workouts" /\ site = "log_page" /\ fpc = "return"
  /\ fetch.result # "TransportError" /\ ~RefreshFailed
  /\ fetch.last >= 400

\* C18: when the request for a page of the workout log, the first or a later
\* one, ends with a status >= 400, get_workouts raises APIError with that
\* status and returns no workout, whatever the earlier pages gave, and the
\* names cached during the earlier pages stay in the cache
C18_AllOrNothing ==
  /\ [](LogPageFailed => fetch.result = "APIError" /\ fetch.status = fetch.last)
  /\ [][ LogPageFailed =>
           /\ fpc' = "done"
           /\ outcome'.result = "APIError" /\ outcome'.status = fetch.last
           /\ outcome'.value = << >>
           /\ exercises_cache' = exercises_cache ]_vars
  /\ []((fpc = "done" /\ outcome.op = "get_workouts" /\ outcome.result = "APIError") =>
          /\ outcome.value = << >>
          /\ outcome.status >= 400
          /\ \A e \in DOMAIN outcome.left.named_at : e \in DOMAIN exercises_cache)

\* C18 witness: the second page of the log was answered with an error after
\* the first page gave workouts and a name for the cache: APIError, no
\* workout returned, the name still cached
C18_Witness ==
  /\ fpc = "done" /\ outcome.op = "get_workouts" /\ outcome.result = "APIError"
  /\ outcome.left.page = 1
  /\ outcome.left.workouts # << >>
  /\ outcome.left.named_at # EmptyMap
  /\ \A e \in DOMAIN outcome.left.named_at : e \in DOMAIN exercises_cache

====
